---- MODULE Spec2Model ----
(***************************************************************************)
(* A model of the simple-ledger node (node/src/main.rs), its chain store   *)
(* (Blocks, in node/src/main.rs and node/src/block.rs), the message types  *)
(* (ledger-types/src/lib.rs), the datagram transport                       *)
(* (ledger-transport/src/lib.rs) and the client (client/src/main.rs).      *)
(*                                                                         *)
(* 32-byte values (B256) are natural numbers.  SHA-256 is an injective     *)
(* function of exactly the bytes the code feeds to the hasher.  A          *)
(* signature (r, s, recovery_id) is the pair (signer address, signed hash) *)
(* plus the recovery id byte and whether r and s are valid scalars;        *)
(* recovery yields the signer when asked about the signed hash.            *)
(***************************************************************************)
EXTENDS Integers, Sequences, FiniteSets, Bags, TLC

VARIABLES blocks, others, pending_transactions, status, net, last, added

vars == <<blocks, others, pending_transactions, status, net, last, added>>

---------------------------------------------------------------------------
(* Bounds of the model. *)

\* Chains are explored up to this height (number of blocks, genesis included).
MaxHeight == 2

\* At most this many datagrams are in flight.
MaxNet == 2

\* The width of u64 in the model, in bits.
U64Bits == 2

---------------------------------------------------------------------------
(* The universe: sockets, addresses, amounts. *)

\* The two node processes, named by their sockets.
Node == {1, 2}

\* The socket of a client process.
ClientSockets == {9}

\* address_of(signer.verifying_key()) of the two nodes.
NodeAddr == <<3, 6>>

\* The address of a block proposer that is neither node.
PeerAddrs == {8}

\* The accounts that sign and receive transactions.
Accounts == {1, 2}

Amounts == {0, 1}

SetMax(S) == CHOOSE x \in S : \A y \in S : y <= x

---------------------------------------------------------------------------
(* ledger-types: hashing. *)

\* u64 holds 0 .. U64Modulus - 1.
U64Modulus == 2 ^ U64Bits

\* amount.to_be_bytes(): one digit to the base of u64.
AmountBase == U64Modulus

\* SHA-256 over to || amount.to_be_bytes(): injective in (to, amount), >= 1.
TransactionData_hash(d) == d.to * AmountBase + d.amount + 1

TxHashMax == SetMax(Accounts) * AmountBase + AmountBase

\* The hash fields of the transactions, fed to the hasher one after another
\* (the stored tx.hash, not a recomputed one; 0 stands for a wrong hash).
RECURSIVE TxsCode(_)
TxsCode(txs) ==
    IF txs = <<>> THEN 0
    ELSE TxsCode(SubSeq(txs, 1, Len(txs) - 1)) * (TxHashMax + 1)
            + txs[Len(txs)].hash + 1

HashBase == TxHashMax + 2

\* SHA-256 over prev_hash || tx[0].hash || tx[1].hash ...: the block number
\* and the proposer are not hashed.  Injective in (prev_hash, tx hashes) for
\* the blocks of the model (at most one transaction), and never equal to
\* prev_hash.
BlockData_hash(d) == d.prev_hash * HashBase + TxsCode(d.transactions) + 1

---------------------------------------------------------------------------
(* ledger-types: signatures. *)

Signature_sign(signer, hash) ==
    [signer |-> signer, msg |-> hash, recovery_id |-> 0, scalars_ok |-> TRUE]

\* RecoveryId::from_byte(..).unwrap() and Signature::from_scalars(..).unwrap()
Signature_as_signature_panics(sig) ==
    sig.recovery_id > 3 \/ ~sig.scalars_ok

\* Option<B256> as a set: {} is None, {a} is Some(a).  Recovery against a
\* hash other than the signed one yields a key nobody holds.
Signature_recover(sig, hash) ==
    IF sig.msg = hash THEN {sig.signer} ELSE {}

Transaction_new(d, signer) ==
    [hash |-> TransactionData_hash(d), from |-> signer, data |-> d,
     signature |-> Signature_sign(signer, TransactionData_hash(d))]

\* "Some", "None", or "Panic" when as_signature unwraps a malformed signature.
Transaction_verify(tx) ==
    LET expected_hash == TransactionData_hash(tx.data)
    IN  IF tx.hash # expected_hash THEN "None"
        ELSE IF Signature_as_signature_panics(tx.signature) THEN "Panic"
        ELSE IF tx.from \notin Signature_recover(tx.signature, expected_hash)
             THEN "None"
        ELSE "Some"

Block_new(d, signer) ==
    [hash |-> BlockData_hash(d), data |-> d, proposer |-> signer,
     signature |-> Signature_sign(signer, BlockData_hash(d))]

Block_verify(b) ==
    LET expected_hash == BlockData_hash(b.data)
    IN  IF b.hash # expected_hash THEN "None"
        ELSE IF Signature_as_signature_panics(b.signature) THEN "Panic"
        ELSE IF b.proposer \notin Signature_recover(b.signature, expected_hash)
             THEN "None"
        ELSE "Some"

B256_distance(a, b) == IF a > b THEN a - b ELSE b - a

---------------------------------------------------------------------------
(* node: the chain store Blocks {hashes: Vec<B256>, data: HashMap}.       *)
(* hashes is a sequence (number i is hashes[i+1]); data is the set of the  *)
(* map's entries (key, block), one per key.                                *)

Blocks_default == [hashes |-> <<>>, data |-> {}]

DataHas(data, h) == \E e \in data : e.key = h

DataGet(data, h) == (CHOOSE e \in data : e.key = h).block

\* HashMap::values()
DataValues(data) == {e.block : e \in data}

\* The store that pushes the hash and keeps no block under it.
DataInsert_Skip(data, block) == data

\* HashMap::insert(block.hash, block): replaces the value under that key.
DataInsert(data, block) ==
    {e \in data : e.key # block.hash} \cup {[key |-> block.hash, block |-> block]}

append_unchecked(bs, block) ==
    [hashes |-> Append(bs.hashes, block.hash),
     data |-> DataInsert(bs.data, block)]

AddedR == [tag |-> "Added", start |-> 0]
NoneR == [tag |-> "None", start |-> 0]
PanicR == [tag |-> "Panic", start |-> 0]
NeedSync(start) == [tag |-> "NeedSync", start |-> start]

\* self.hashes[new_block_number as usize - 1] panics when out of range.
PrevIndexInRange(bs, block) == block.data.number - 1 < Len(bs.hashes)

\* The store with the comparison of prev_hash left out.
PrevHashMatches_NoCheck(bs, block) == TRUE

PrevHashMatches(bs, block) ==
    block.data.prev_hash = bs.hashes[block.data.number]

\* The block the code calls current_block in the Ordering::Less arm:
\* data[hashes[new_block_number - 1]].
CurrentBlock(bs, block) == DataGet(bs.data, bs.hashes[block.data.number])

ReplacesCurrent(bs, block) ==
    LET prev_block_hash == bs.hashes[block.data.number]
        current_distance ==
            B256_distance(CurrentBlock(bs, block).proposer, prev_block_hash)
        new_distance == B256_distance(block.proposer, prev_block_hash)
    IN  current_distance > new_distance

\* Vec::truncate
Truncate(s, n) == IF n < Len(s) THEN SubSeq(s, 1, n) ELSE s

append(bs, block) ==
    LET new_block_number == block.data.number
        next_block_number == Len(bs.hashes)
    IN  IF bs.hashes = <<>> /\ new_block_number = 0
        THEN [blocks |-> append_unchecked(bs, block), result |-> AddedR]
        ELSE IF new_block_number = 0
        THEN [blocks |-> bs, result |-> NoneR]
        ELSE IF ~PrevIndexInRange(bs, block)
        THEN [blocks |-> bs, result |-> PanicR]
        ELSE IF ~PrevHashMatches(bs, block)
        THEN [blocks |-> bs, result |-> NoneR]
        ELSE IF new_block_number = next_block_number
        THEN [blocks |-> append_unchecked(bs, block), result |-> AddedR]
        ELSE IF new_block_number > next_block_number
        THEN [blocks |-> bs, result |-> NeedSync(next_block_number)]
        ELSE IF ~DataHas(bs.data, bs.hashes[new_block_number])
        THEN [blocks |-> bs, result |-> PanicR]
        ELSE IF ReplacesCurrent(bs, block)
        THEN [blocks |->
                append_unchecked(
                    [bs EXCEPT !.hashes = Truncate(@, new_block_number)],
                    block),
              result |-> NeedSync(new_block_number + 1)]
        ELSE [blocks |-> bs, result |-> NoneR]

\* Option<&Block> as a set.
data_by_number(bs, number) ==
    IF number + 1 > Len(bs.hashes) THEN {}
    ELSE {e.block : e \in {x \in bs.data : x.key = bs.hashes[number + 1]}}

\* The transactions of the chain in chain order (the flat_map).
RECURSIVE ChainTransactions(_, _)
ChainTransactions(bs, i) ==
    IF i > Len(bs.hashes) THEN <<>>
    ELSE DataGet(bs.data, bs.hashes[i]).data.transactions
            \o ChainTransactions(bs, i + 1)

\* u64 `+` where the build does not check overflow (release): it wraps.
WrappingAdd(a, b) == (a + b) % U64Modulus

RECURSIVE BalanceFold(_, _, _, _)
BalanceFold(txs, i, address, balance) ==
    IF i > Len(txs) THEN balance
    ELSE LET t == txs[i]
             credited == IF t.data.to = address
                         THEN WrappingAdd(balance, t.data.amount) ELSE balance
             debited == IF t.from = address
                        THEN (IF credited > t.data.amount
                              THEN credited - t.data.amount ELSE 0)
                        ELSE credited
         IN  BalanceFold(txs, i + 1, address, debited)

balance_of(bs, address) ==
    BalanceFold(ChainTransactions(bs, 1), 1, address, 0)

\* Some `balance += amount` of the loop overflows u64: where the build
\* checks overflow (debug) the thread panics there.
RECURSIVE BalanceOverflows(_, _, _, _)
BalanceOverflows(txs, i, address, balance) ==
    IF i > Len(txs) THEN FALSE
    ELSE LET t == txs[i]
         IN  \/ /\ t.data.to = address
                /\ balance + t.data.amount >= U64Modulus
             \/ BalanceOverflows(txs, i + 1, address,
                                 BalanceFold(SubSeq(txs, i, i), 1, address,
                                             balance))

balance_of_overflows(bs, address) ==
    BalanceOverflows(ChainTransactions(bs, 1), 1, address, 0)

---------------------------------------------------------------------------
(* ledger-types: Message, and what a datagram carries.                     *)

Hello(node_info) == [kind |-> "Hello", info |-> node_info]
TransactionMsg(tx) == [kind |-> "Transaction", tx |-> tx]
BlockMsg(block) == [kind |-> "Block", block |-> block]
SyncBlock(sender, start) == [kind |-> "SyncBlock", sender |-> sender, start |-> start]
BalanceOf(sender, address) == [kind |-> "BalanceOf", sender |-> sender, address |-> address]

\* serde_json::to_string(msg) of a Message, of a bare Block, of a bare u64;
\* "Garbage" is a datagram that is no JSON of any of them.
WireMessage(m) == [form |-> "Message", body |-> m]
WireBlock(b) == [form |-> "Block", body |-> b]
WireU64(v) == [form |-> "U64", body |-> v]
WireGarbage == [form |-> "Garbage", body |-> 0]

Datagram(to, wire) == [to |-> to, wire |-> wire]

NodeInfo(n) == [address |-> NodeAddr[n], socket |-> n]

---------------------------------------------------------------------------
(* node: the handlers.  A handler yields the set of its possible effects:  *)
(* the node's fields afterwards, whether the thread goes on running, the   *)
(* datagrams it sent, in order, and the path it took (res: the result of   *)
(* Blocks::append where it ran, else the name of the branch).              *)

Effect(bs, oth, pend, st, sent, res) ==
    [blocks |-> bs, others |-> oth, pending |-> pend, status |-> st,
     sent |-> sent, res |-> res]

Path(tag) == [tag |-> tag, start |-> 0]

\* The handler returns early without touching anything.
Return(n, tag) ==
    Effect(blocks[n], others[n], pending_transactions[n], "running", <<>>,
           Path(tag))

\* The thread panics: nothing more is written or sent.
Panic(n, sent, res) ==
    Effect(blocks[n], others[n], pending_transactions[n], "panicked", sent, res)

\* BTreeMap::values(): in key (address) order.
RECURSIVE OthersValues(_)
OthersValues(oth) ==
    IF oth = {} THEN <<>>
    ELSE LET first == CHOOSE x \in oth : \A y \in oth : x.address <= y.address
         IN  <<first>> \o OthersValues(oth \ {first})

\* BTreeMap::insert(node_info.address, node_info)
OthersInsert(oth, node_info) ==
    {x \in oth : x.address # node_info.address} \cup {node_info}

send_to_others(oth, msg) ==
    LET values == OthersValues(oth)
    IN  [i \in 1..Len(values) |-> Datagram(values[i].socket, WireMessage(msg))]

\* The handler that takes every Hello for news.
HelloIsNovel_Always(n, node_info) == TRUE

HelloIsNovel(n, node_info) ==
    /\ \A x \in others[n] : x.address # node_info.address
    /\ node_info.address # NodeAddr[n]

process_hello(n, node_info) ==
    LET oth == OthersInsert(others[n], node_info)
    IN  IF HelloIsNovel(n, node_info)
        THEN {Effect(blocks[n], oth, pending_transactions[n], "running",
                     send_to_others(oth, Hello(node_info)), Path("Novel"))}
        ELSE {Effect(blocks[n], oth, pending_transactions[n], "running",
                     <<>>, Path("Known"))}

\* All the orders in which HashMap::drain may yield the entries.
RECURSIVE DrainOrders(_)
DrainOrders(pend) ==
    IF pend = {} THEN {<<>>}
    ELSE UNION {{<<t>> \o rest : rest \in DrainOrders(pend \ {t})} : t \in pend}

\* The proposal numbered one too high.
ProposedBlock_NumberOff(n, transactions) ==
    Block_new([prev_hash |-> blocks[n].hashes[Len(blocks[n].hashes)],
               number |-> Len(blocks[n].hashes) + 1,
               transactions |-> transactions],
              NodeAddr[n])

ProposedBlock(n, transactions) ==
    Block_new([prev_hash |-> blocks[n].hashes[Len(blocks[n].hashes)],
               number |-> Len(blocks[n].hashes),
               transactions |-> transactions],
              NodeAddr[n])

\* propose_block reading the pool without draining it.
propose_block_KeepPool(n, pend, presend) ==
    IF blocks[n].hashes = <<>>
    THEN {Panic(n, presend, Path("ProposePanic"))}
    ELSE {Effect(append_unchecked(blocks[n], ProposedBlock(n, transactions)),
                 others[n], pend, "running",
                 presend \o send_to_others(others[n],
                                BlockMsg(ProposedBlock(n, transactions))),
                 Path("Proposed"))
          : transactions \in DrainOrders(pend)}

\* propose_block, entered with the pool `pend` after `presend` was sent.
propose_block(n, pend, presend) ==
    IF blocks[n].hashes = <<>>
    THEN \* hashes.last().unwrap() on an empty chain
         {Panic(n, presend, Path("ProposePanic"))}
    ELSE {Effect(append_unchecked(blocks[n], ProposedBlock(n, transactions)),
                 others[n], {}, "running",
                 presend \o send_to_others(others[n],
                                BlockMsg(ProposedBlock(n, transactions))),
                 Path("Proposed"))
          : transactions \in DrainOrders(pend)}

\* The handler with the balance check left out.
HasEnoughBalance_NoCheck(n, tx) == TRUE

HasEnoughBalance(n, tx) == ~(balance_of(blocks[n], tx.from) < tx.data.amount)

\* The pool with the insert left out.
PendingInsert_Skip(pend, tx) == pend

\* HashMap::insert(tx.hash, tx)
PendingInsert(pend, tx) == {t \in pend : t.hash # tx.hash} \cup {tx}

\* The handler that takes no transaction for news: it keeps it in the pool.
TxIsNovel_Never(n, tx) == FALSE

TxIsNovel(n, tx) == \A t \in pending_transactions[n] : t.hash # tx.hash

process_transaction(n, tx) ==
    CASE Transaction_verify(tx) = "Panic" -> {Panic(n, <<>>, Path("VerifyPanic"))}
      [] Transaction_verify(tx) = "None" -> {Return(n, "VerifyNone")}
      [] OTHER ->
            (IF balance_of_overflows(blocks[n], tx.from)
             THEN {Panic(n, <<>>, Path("BalancePanic"))} ELSE {})
            \cup
            (IF ~HasEnoughBalance(n, tx) THEN {Return(n, "Insufficient")}
             ELSE IF TxIsNovel(n, tx)
             THEN propose_block(n, PendingInsert(pending_transactions[n], tx),
                                send_to_others(others[n], TransactionMsg(tx)))
             ELSE {Effect(blocks[n], others[n],
                          PendingInsert(pending_transactions[n], tx),
                          "running", <<>>, Path("Replaced"))})

\* The handler without the comparison of the proposer.
IsOwnBlock_Never(n, block) == FALSE

IsOwnBlock(n, block) == block.proposer = NodeAddr[n]

\* The match on the result r of self.blocks.append(block.clone()).
AfterAppend(n, block, r) ==
    CASE r.result.tag = "NeedSync" ->
            Effect(r.blocks, others[n], pending_transactions[n], "running",
                   send_to_others(others[n],
                                  SyncBlock(NodeAddr[n], r.result.start)),
                   r.result)
      [] r.result.tag = "Added" ->
            Effect(r.blocks, others[n], pending_transactions[n], "running",
                   send_to_others(others[n], BlockMsg(block)), r.result)
      [] OTHER -> \* BlockAppendResult::None => todo!(); or append panicked
            Panic(n, <<>>, r.result)

process_block(n, block) ==
    CASE Block_verify(block) = "Panic" -> {Panic(n, <<>>, Path("VerifyPanic"))}
      [] Block_verify(block) = "None" -> {Return(n, "VerifyNone")}
      [] OTHER ->
            IF IsOwnBlock(n, block) THEN {Return(n, "Own")}
            ELSE {AfterAppend(n, block, append(blocks[n], block))}

\* The service that answers with the whole chain, whatever the start.
SyncReplies_FromGenesis(n, socket, start) ==
    [k \in 1..Len(blocks[n].hashes) |->
        Datagram(socket,
                 WireBlock(CHOOSE b \in data_by_number(blocks[n], k - 1) : TRUE))]

\* The blocks sent for i in start..hashes.len().
SyncReplies(n, socket, start) ==
    LET height == Len(blocks[n].hashes)
    IN  [k \in 1..(IF height > start THEN height - start ELSE 0) |->
            Datagram(socket,
                     WireBlock(CHOOSE b \in data_by_number(blocks[n], start + k - 1) : TRUE))]

process_sync_block(n, sender, start) ==
    LET sender_info == {x \in others[n] : x.address = sender}
    IN  IF sender_info = {} THEN {Return(n, "MissingPeer")}
        ELSE IF \E i \in start..(Len(blocks[n].hashes) - 1) :
                    data_by_number(blocks[n], i) = {}
        THEN {Panic(n, <<>>, Path("SyncPanic"))}
        ELSE {Effect(blocks[n], others[n], pending_transactions[n], "running",
                     SyncReplies(n, (CHOOSE x \in sender_info : TRUE).socket, start),
                     Path("Served"))}

process_balance_of(n, sender, address) ==
    (IF balance_of_overflows(blocks[n], address)
     THEN {Panic(n, <<>>, Path("BalancePanic"))} ELSE {})
    \cup
    {Effect(blocks[n], others[n], pending_transactions[n], "running",
            <<Datagram(sender, WireU64(balance_of(blocks[n], address)))>>,
            Path("Balance"))}

process_message(n, message) ==
    CASE message.kind = "Hello" -> process_hello(n, message.info)
      [] message.kind = "Transaction" -> process_transaction(n, message.tx)
      [] message.kind = "Block" -> process_block(n, message.block)
      [] message.kind = "SyncBlock" ->
            process_sync_block(n, message.sender, message.start)
      [] message.kind = "BalanceOf" ->
            process_balance_of(n, message.sender, message.address)

\* One turn of `while let Some(message) = self.transport.receive()`:
\* a datagram that does not decode as a Message ends the loop.
run(n, wire) ==
    IF wire.form = "Message" THEN process_message(n, wire.body)
    ELSE {Effect(blocks[n], others[n], pending_transactions[n], "stopped",
                 <<>>, Path("Undecodable"))}

WireKind(wire) == IF wire.form = "Message" THEN wire.body.kind ELSE wire.form

---------------------------------------------------------------------------
(* What the rest of the network can send to a node: every kind of          *)
(* datagram, well-formed or not, built from the sets above.                *)

TxSigners == Accounts

Recipients == {1}

ValidTxs ==
    {Transaction_new([to |-> t, amount |-> a], s) :
        s \in TxSigners, t \in Recipients, a \in Amounts}

\* A transaction whose from is swapped, one whose hash is wrong, and two
\* whose signature does not decode.
BaseTx == Transaction_new([to |-> 1, amount |-> 0], 2)

InvalidTxs ==
    {[BaseTx EXCEPT !.from = 1],
     [BaseTx EXCEPT !.hash = 0],
     [BaseTx EXCEPT !.signature.recovery_id = 4],
     [BaseTx EXCEPT !.signature.scalars_ok = FALSE]}

PeerTxs == ValidTxs \cup InvalidTxs

Proposers == {NodeAddr[n] : n \in Node} \cup PeerAddrs

\* The transaction lists of the blocks peers send.
BlockTxSeqs ==
    {<<>>, <<Transaction_new([to |-> 1, amount |-> 1], 2)>>}

Range(f) == {f[i] : i \in DOMAIN f}

\* The hashes a block numbered k may name as its predecessor: the one the
\* chain holds below k, and zero (the genesis' own, a mismatch elsewhere).
PrevHashes(bs, k) ==
    {0} \cup (IF 1 <= k /\ k <= Len(bs.hashes) THEN {bs.hashes[k]} ELSE {})

\* The well-formed blocks a peer may hold against the store bs: any number
\* up to one above its height.
BlocksFor(bs) ==
    UNION {{Block_new([prev_hash |-> p, number |-> k, transactions |-> txs], who) :
                p \in PrevHashes(bs, k), txs \in BlockTxSeqs, who \in Proposers}
           : k \in 0..(Len(bs.hashes) + 1)}

PeerBlocks(n) == BlocksFor(blocks[n])

BaseBlock ==
    Block_new([prev_hash |-> 0, number |-> 0, transactions |-> <<>>],
              NodeAddr[2])

InvalidBlocks ==
    {[BaseBlock EXCEPT !.proposer = NodeAddr[1]],
     [BaseBlock EXCEPT !.hash = 0],
     [BaseBlock EXCEPT !.signature.recovery_id = 4],
     [BaseBlock EXCEPT !.signature.scalars_ok = FALSE]}

\* What a peer may announce: the other node, and an entry that carries the
\* receiving node's own address.
PeerInfos == {[address |-> NodeAddr[n], socket |-> 2] : n \in Node}

SyncRequests(n) ==
    {SyncBlock(a, k) : a \in Proposers, k \in 0..Len(blocks[n].hashes)}

BalanceRequests == {BalanceOf(c, a) : c \in ClientSockets, a \in Accounts}

---------------------------------------------------------------------------
(* The transport and the steps of the system.                              *)

\* The datagrams of `sent` that reach a bound socket of a node: one sent to
\* a socket nobody has bound, or to a client, leaves the system.
RECURSIVE InFlight(_, _)
InFlight(sent, i) ==
    IF i > Len(sent) THEN EmptyBag
    ELSE (IF sent[i].to \in Node /\ status[sent[i].to] # "off"
          THEN SetToBag({sent[i]}) ELSE EmptyBag)
         (+) InFlight(sent, i + 1)

\* What `last` remembers of the datagram of the latest turn: the
\* transaction or the block it carried.
Subject(wire) ==
    IF wire.form # "Message" THEN <<>>
    ELSE IF wire.body.kind = "Transaction" THEN <<wire.body.tx>>
    ELSE IF wire.body.kind = "Block" THEN <<wire.body.block>>
    ELSE <<>>

NoLast == [node |-> 0, kind |-> "-", res |-> Path("-"), subject |-> <<>>]

\* Block b is the block of the chain at its number.
InChain(bs, b) ==
    /\ b.data.number < Len(bs.hashes)
    /\ bs.hashes[b.data.number + 1] = b.hash
    /\ [key |-> b.hash, block |-> b] \in bs.data

\* The entries of data that hashes refers to.  An entry whose key has left
\* hashes (after a truncation) stays in the HashMap for ever, but no
\* operation of the store can reach it: data is only read under the
\* elements of hashes.  The state keeps the reachable entries.
Live(bs) == [bs EXCEPT !.data = {e \in @ : e.key \in Range(bs.hashes)}]

\* Node n takes `wire` from its socket and runs one turn of Node::run on it,
\* with effect e, the chain staying within `cap` blocks.  `added` remembers
\* the blocks for which append returned Added and which have been in the
\* chain ever since.
Turn(n, wire, e, cap) ==
    /\ status[n] = "running"
    /\ Len(e.blocks.hashes) <= cap
    /\ blocks' = [blocks EXCEPT ![n] = Live(e.blocks)]
    /\ others' = [others EXCEPT ![n] = e.others]
    /\ pending_transactions' = [pending_transactions EXCEPT ![n] = e.pending]
    /\ status' = [status EXCEPT ![n] = e.status]
    /\ last' = [node |-> n, kind |-> WireKind(wire), res |-> e.res,
                subject |-> Subject(wire)]
    /\ added' = [added EXCEPT ![n] =
                    {b \in @ \cup (IF e.res.tag = "Added"
                                   THEN {wire.body.block} ELSE {}) :
                        InChain(e.blocks, b)}]

\* A datagram from a peer or a client outside the model arrives at node n.
Arrive(n, wire) ==
    \E e \in run(n, wire) :
        /\ Turn(n, wire, e, MaxHeight)
        /\ net' = net (+) InFlight(e.sent, 1)
        /\ BagCardinality(net') <= MaxNet

PeerHello(n) == \E i \in PeerInfos : Arrive(n, WireMessage(Hello(i)))

PeerTransaction(n) == \E t \in PeerTxs : Arrive(n, WireMessage(TransactionMsg(t)))

PeerBlock(n) ==
    \E b \in PeerBlocks(n) \cup InvalidBlocks : Arrive(n, WireMessage(BlockMsg(b)))

PeerSyncBlock(n) == \E m \in SyncRequests(n) : Arrive(n, WireMessage(m))

ClientBalanceOf(n) == \E m \in BalanceRequests : Arrive(n, WireMessage(m))

PeerUndecodable(n) == Arrive(n, WireGarbage)

\* Node::new
NewNode ==
    /\ blocks = [n \in Node |-> Blocks_default]
    /\ others = [n \in Node |-> {}]
    /\ pending_transactions = [n \in Node |-> {}]
    /\ net = EmptyBag
    /\ last = NoLast
    /\ added = [n \in Node |-> {}]

\* Node 1, constructed and running, under every datagram the network can
\* send it; node 2 is a socket of the environment.
Init ==
    /\ NewNode
    /\ status = [n \in Node |-> IF n = 1 THEN "running" ELSE "off"]

Next ==
    \/ \E n \in Node : PeerHello(n)
    \/ \E n \in Node : PeerTransaction(n)
    \/ \E n \in Node : PeerBlock(n)
    \/ \E n \in Node : PeerSyncBlock(n)
    \/ \E n \in Node : ClientBalanceOf(n)
    \/ \E n \in Node : PeerUndecodable(n)

Spec == Init /\ [][Next]_vars

---------------------------------------------------------------------------
(* The closed system: the two node processes and the clients, with the     *)
(* datagrams between them in flight.                                       *)

\* The chains of the closed system are explored one block higher.
NetHeight == MaxHeight + 1

\* A turn may add the datagrams it sends to the one it took.
FlightCap == MaxNet + 2

\* A datagram in flight arrives at the running node it is addressed to.
Deliver(d) ==
    /\ BagIn(d, net)
    /\ \E e \in run(d.to, d.wire) :
        /\ Turn(d.to, d.wire, e, NetHeight)
        /\ net' = (net (-) SetToBag({d})) (+) InFlight(e.sent, 1)
        /\ BagCardinality(net') <= FlightCap

\* A datagram in flight arrives at the socket of a process that has ended.
Lose(d) ==
    /\ BagIn(d, net)
    /\ status[d.to] # "running"
    /\ net' = net (-) SetToBag({d})
    /\ last' = [node |-> d.to, kind |-> "Lost", res |-> Path("-"),
                subject |-> <<>>]
    /\ UNCHANGED <<blocks, others, pending_transactions, status, added>>

\* node main(): parse the parameters, make the key, Node::new, run.  The
\* parameter other_node is parsed and never read.
Start(n, other_node) ==
    /\ status[n] = "off"
    /\ status' = [status EXCEPT ![n] = "running"]
    /\ last' = [node |-> n, kind |-> "Start", res |-> Path("-"),
                subject |-> <<other_node>>]
    /\ UNCHANGED <<blocks, others, pending_transactions, net, added>>

\* What the client signs: any transfer between accounts.
ClientTxs ==
    {Transaction_new([to |-> t, amount |-> a], s) :
        s \in Accounts, t \in Accounts, a \in Amounts}

\* A datagram of the client, on its way if the node's socket is bound.
ClientSend(n, m) ==
    /\ net' = net (+) (IF status[n] # "off"
                       THEN SetToBag({Datagram(n, WireMessage(m))})
                       ELSE EmptyBag)
    /\ BagCardinality(net') <= MaxNet
    /\ last' = [node |-> n, kind |-> "Client", res |-> Path("-"),
                subject |-> <<>>]
    /\ UNCHANGED <<blocks, others, pending_transactions, status, added>>

\* client main() with --transfer-to and --amount
ClientTransfer(n) == \E t \in ClientTxs : ClientSend(n, TransactionMsg(t))

\* client main() with --balance
ClientBalance(n) == \E m \in BalanceRequests : ClientSend(n, m)

InitNet ==
    /\ NewNode
    /\ status = [n \in Node |-> "off"]

NextNet ==
    \/ \E n \in Node, o \in Node : Start(n, o)
    \/ \E n \in Node : ClientTransfer(n)
    \/ \E n \in Node : ClientBalance(n)
    \/ \E d \in BagToSet(net) : Deliver(d)
    \/ \E d \in BagToSet(net) : Lose(d)

SpecNet == InitNet /\ [][NextNet]_vars

---------------------------------------------------------------------------
(* The closed system after it has been seeded: the same genesis on both    *)
(* nodes, each node in the other's directory, and one transaction of a     *)
(* client on its way to node 1.                                            *)

GenesisBlocks ==
    {Block_new([prev_hash |-> 0, number |-> 0, transactions |-> txs], who) :
        txs \in BlockTxSeqs, who \in Proposers}

Seated(genesis) == append_unchecked(Blocks_default, genesis)

InitTx ==
    \E genesis \in GenesisBlocks : \E t \in ClientTxs :
        /\ ~(balance_of(Seated(genesis), t.from) < t.data.amount)
        /\ blocks = [n \in Node |-> Seated(genesis)]
        /\ others = [n \in Node |-> {NodeInfo(o) : o \in Node \ {n}}]
        /\ pending_transactions = [n \in Node |-> {}]
        /\ status = [n \in Node |-> "running"]
        /\ net = SetToBag({Datagram(1, WireMessage(TransactionMsg(t)))})
        /\ last = NoLast
        /\ added = [n \in Node |-> {}]

NextTx ==
    \/ \E d \in BagToSet(net) : Deliver(d)
    \/ \E d \in BagToSet(net) : Lose(d)

SpecTx == InitTx /\ [][NextTx]_vars

---------------------------------------------------------------------------
(* The closed system with node 2 behind node 1: both hold the genesis,     *)
(* node 1 has proposed two blocks on it, each node is in the other's       *)
(* directory, and the gossip of node 1's latest block is on its way to     *)
(* node 2 while a client asks node 2 for a balance.                        *)

\* The block `who` proposes on the store bs with the transactions txs.
Extension(bs, txs, who) ==
    Block_new([prev_hash |-> bs.hashes[Len(bs.hashes)],
               number |-> Len(bs.hashes), transactions |-> txs], who)

\* The store bs after `who` has proposed a block with txs on it.
Extended(bs, txs, who) == append_unchecked(bs, Extension(bs, txs, who))

InitSync ==
    \E genesis \in GenesisBlocks : \E t1, t2 \in BlockTxSeqs :
    \E m \in BalanceRequests :
        LET ahead == Extended(Extended(Seated(genesis), t1, NodeAddr[1]),
                              t2, NodeAddr[1])
        IN  /\ blocks = [n \in Node |-> IF n = 1 THEN ahead
                                        ELSE Seated(genesis)]
            /\ others = [n \in Node |-> {NodeInfo(o) : o \in Node \ {n}}]
            /\ pending_transactions = [n \in Node |-> {}]
            /\ status = [n \in Node |-> "running"]
            /\ net = SetToBag({Datagram(2, WireMessage(BlockMsg(
                                    CHOOSE b \in data_by_number(ahead, 2) : TRUE))),
                               Datagram(2, WireMessage(m))})
            /\ last = NoLast
            /\ added = [n \in Node |-> {}]

SpecSync == InitSync /\ [][NextTx]_vars

---------------------------------------------------------------------------
(* Node 1 under the blocks of a peer that fills them as it likes: with     *)
(* transfers of any amount of the u64 range and with transactions that do  *)
(* not verify.  Block::verify checks the block's own hash and signature    *)
(* only.                                                                   *)

U64Max == U64Modulus - 1

\* Transfers of account 2 to account 1, of one unit and of the largest amount.
CreditTxs ==
    {Transaction_new([to |-> 1, amount |-> a], 2) : a \in {1, U64Max}}

\* The transactions of a peer on which verify() returns None.
ForgedTxs == {t \in InvalidTxs : Transaction_verify(t) = "None"}

ChainTxSeqs == {<<>>} \cup {<<t>> : t \in CreditTxs \cup ForgedTxs}

\* The blocks that peer may hold against the store bs.
ChainBlocks(bs) ==
    UNION {{Block_new([prev_hash |-> p, number |-> k, transactions |-> txs], who) :
                p \in PrevHashes(bs, k), txs \in ChainTxSeqs, who \in PeerAddrs}
           : k \in 0..(Len(bs.hashes) + 1)}

PeerChainBlock(n) ==
    \E b \in ChainBlocks(blocks[n]) : Arrive(n, WireMessage(BlockMsg(b)))

NextChain ==
    \/ \E n \in Node : PeerChainBlock(n)
    \/ \E n \in Node : PeerTransaction(n)
    \/ \E n \in Node : ClientBalanceOf(n)

SpecChain == Init /\ [][NextChain]_vars

---------------------------------------------------------------------------
(* Node 1 with a peer's genesis seated and node 2 in its directory, under  *)
(* the transactions and blocks the network can send it, its chain explored *)
(* one block higher: the node proposes more than once, for different       *)
(* transactions, with blocks of peers arriving in between.                 *)

InitPool ==
    \E genesis \in {g \in GenesisBlocks : g.proposer \in PeerAddrs} :
        /\ blocks = [n \in Node |-> IF n = 1 THEN Seated(genesis)
                                    ELSE Blocks_default]
        /\ others = [n \in Node |-> IF n = 1 THEN {NodeInfo(2)} ELSE {}]
        /\ pending_transactions = [n \in Node |-> {}]
        /\ status = [n \in Node |-> IF n = 1 THEN "running" ELSE "off"]
        /\ net = EmptyBag
        /\ last = NoLast
        /\ added = [n \in Node |-> {}]

\* A datagram from outside arrives at node n, as in Arrive, the chain
\* staying within NetHeight blocks.
ArriveHigh(n, wire) ==
    \E e \in run(n, wire) :
        /\ Turn(n, wire, e, NetHeight)
        /\ net' = net (+) InFlight(e.sent, 1)
        /\ BagCardinality(net') <= MaxNet

PoolTransaction(n) ==
    \E t \in PeerTxs : ArriveHigh(n, WireMessage(TransactionMsg(t)))

PoolBlock(n) ==
    \E b \in PeerBlocks(n) : ArriveHigh(n, WireMessage(BlockMsg(b)))

NextPool ==
    \/ \E n \in Node : PoolTransaction(n)
    \/ \E n \in Node : PoolBlock(n)

SpecPool == InitPool /\ [][NextPool]_vars

---------------------------------------------------------------------------
(* The properties of the specification, each against the model above.      *)

Height(n) == Len(blocks[n].hashes)

\* The effect e leaves node n as it is and sends nothing.
NoEffect(n, e) ==
    /\ e.blocks = blocks[n]
    /\ e.others = others[n]
    /\ e.pending = pending_transactions[n]
    /\ e.status = "running"
    /\ e.sent = <<>>

\* C1 (chain linkage): on every node, after any sequence of appends and
\* local proposals, each block of the chain above the genesis is stored and
\* names the hash one position below it as its prev_hash.
C1_ChainLinkage ==
    \A n \in Node : \A i \in 2..Height(n) :
        /\ DataHas(blocks[n].data, blocks[n].hashes[i])
        /\ DataGet(blocks[n].data, blocks[n].hashes[i]).data.prev_hash
              = blocks[n].hashes[i - 1]

\* A chain of two blocks or more whose tip has just been put in place of
\* another by append.
C1_Witness ==
    /\ last.kind = "Block"
    /\ last.res.tag = "NeedSync"
    /\ Height(last.node) >= 2
    /\ blocks[last.node].hashes[Height(last.node)] = last.subject[1].hash

\* The blocks that extend the tip of the store bs.
TipCandidates(bs) ==
    {Block_new([prev_hash |-> bs.hashes[Len(bs.hashes)],
                number |-> Len(bs.hashes), transactions |-> txs], who) :
        txs \in BlockTxSeqs, who \in Proposers}

Closer(b1, b2, prev) ==
    B256_distance(b1.proposer, prev) < B256_distance(b2.proposer, prev)

\* C2 (fork-choice determinism): two valid blocks of different proposers
\* that both extend the tip at number H, appended to the same store in
\* either order, leave at index H the one whose proposer is nearer to the
\* shared prev_hash.
C2_ForkChoiceDeterminism ==
    \A n \in Node :
        Height(n) >= 1 =>
            \A b1, b2 \in TipCandidates(blocks[n]) :
                Closer(b1, b2, b1.data.prev_hash) =>
                    /\ data_by_number(
                           append(append(blocks[n], b1).blocks, b2).blocks,
                           Height(n)) = {b1}
                    /\ data_by_number(
                           append(append(blocks[n], b2).blocks, b1).blocks,
                           Height(n)) = {b1}

\* C3 (no crash on peer input): no datagram of a peer makes the thread of a
\* node panic, whatever the state of the node.
C3_NeverPanics == \A n \in Node : status[n] # "panicked"

\* C4 (transaction idempotence): once a node has accepted a transaction,
\* handling the same transaction again changes nothing, sends nothing and
\* proposes no block.
C4_TransactionIdempotence ==
    (last.kind = "Transaction" /\ last.res.tag = "Proposed") =>
        \A e \in process_transaction(last.node, last.subject[1]) :
            /\ NoEffect(last.node, e)
            /\ e.res.tag # "Proposed"

\* C5 (block idempotence): a block for which append returned Added, and
\* which is still in the chain, can be appended again, at once or after one
\* more append that kept it, without the chain or the stored blocks
\* changing; handled again by the node it is not broadcast again.
C5_BlockIdempotence ==
    \A n \in Node : \A b \in added[n] :
        /\ append(blocks[n], b).blocks = blocks[n]
        /\ \A e \in process_block(n, b) : \A i \in DOMAIN e.sent :
              e.sent[i].wire # WireMessage(BlockMsg(b))
        /\ \A c \in BlocksFor(blocks[n]) :
              LET after == append(blocks[n], c).blocks
              IN  InChain(after, b) => append(after, b).blocks = after

\* C6 (gap detection): a valid block of a peer whose number is above the
\* height H of the chain leaves the store as it is with the result
\* NeedSync(H), and the node sends SyncBlock(own address, H) to every peer
\* of its directory.
C6_GapDetection ==
    \A n \in Node : \A b \in PeerBlocks(n) :
        b.data.number > Height(n) =>
            /\ append(blocks[n], b)
                  = [blocks |-> blocks[n], result |-> NeedSync(Height(n))]
            /\ ~IsOwnBlock(n, b) =>
                  \A e \in process_block(n, b) :
                      /\ e.status = "running"
                      /\ e.blocks = blocks[n]
                      /\ e.sent = send_to_others(others[n],
                                      SyncBlock(NodeAddr[n], Height(n)))

\* The block the chain holds at height `number`.
Incumbent(bs, number) == CHOOSE b \in data_by_number(bs, number) : TRUE

\* C7 (fork-choice replacement): a valid block numbered N below the height
\* whose prev_hash is the hash at N - 1 replaces the block at height N,
\* with the chain cut after it and the result NeedSync(N + 1), exactly when
\* its proposer is strictly nearer to prev_hash than the proposer of the
\* block at height N; otherwise the store is unchanged and the result is
\* None.
C7_ForkChoiceReplacement ==
    \A n \in Node : \A b \in PeerBlocks(n) :
        LET bs == blocks[n]
            N == b.data.number
        IN  (1 <= N /\ N < Height(n) /\ b.data.prev_hash = bs.hashes[N]) =>
                IF Closer(b, Incumbent(bs, N), b.data.prev_hash)
                THEN /\ append(bs, b).result = NeedSync(N + 1)
                     /\ append(bs, b).blocks.hashes
                           = SubSeq(bs.hashes, 1, N) \o <<b.hash>>
                     /\ data_by_number(append(bs, b).blocks, N) = {b}
                ELSE append(bs, b) = [blocks |-> bs, result |-> NoneR]

\* The transaction does not verify, or its sender cannot afford it.
Rejected(n, tx) ==
    \/ Transaction_verify(tx) = "None"
    \/ /\ Transaction_verify(tx) = "Some"
       /\ balance_of(blocks[n], tx.from) < tx.data.amount

\* C8 (rejected transactions): a transaction that fails verify(), or whose
\* sender's balance on the chain is below its amount, is dropped: the chain,
\* the pool and the directory stay as they are and nothing is sent.
C8_RejectedTransactionDropped ==
    \A n \in Node : \A tx \in PeerTxs :
        Rejected(n, tx) =>
            \A e \in process_transaction(n, tx) : NoEffect(n, e)

\* A node with a chain and a peer, where an accepted transaction would have
\* been broadcast and put in a block, has just dropped one.
C8_Witness ==
    /\ last.kind = "Transaction"
    /\ last.res.tag \in {"VerifyNone", "Insufficient"}
    /\ Height(last.node) >= 1
    /\ others[last.node] # {}
    /\ status[last.node] = "running"
    /\ \E tx \in PeerTxs \ {last.subject[1]} :
          /\ ~Rejected(last.node, tx)
          /\ Transaction_verify(tx) = "Some"

\* C9 (two-node bootstrap): when node 2 starts with node 1, which is
\* running, as its bootstrap peer, it sends Hello with its own NodeInfo to
\* node 1.
C9_Bootstrap ==
    (/\ last.kind = "Start"
     /\ last.node = 2
     /\ last.subject = <<1>>
     /\ status[1] = "running") =>
        BagIn(Datagram(1, WireMessage(Hello(NodeInfo(2)))), net)

Tip(n) == blocks[n].hashes[Height(n)]

\* C10 (propagation converges): after a client has sent one valid
\* transaction to node 1 of two connected nodes with the same genesis, once
\* no datagram is in flight the two chains have the same height and the
\* same tip.
C10_PropagationConverges ==
    net = EmptyBag =>
        /\ Height(1) = Height(2)
        /\ Tip(1) = Tip(2)

\* Node 2 has just handled a Block message whose number is above its height.
GapBlockHandled ==
    /\ last.node = 2
    /\ last.kind = "Block"
    /\ last.subject # <<>>
    /\ last.subject[1].data.number > Height(2)

\* C11 (sync on gap): when node 2, behind node 1 and connected with it,
\* receives a block of node 1 numbered above its height, it stays running
\* and sends SyncBlock(own address, own height) to node 1; and once nothing
\* is in flight its height and tip are those of node 1.
C11_SyncOnGap ==
    /\ GapBlockHandled =>
          /\ status[2] = "running"
          /\ BagIn(Datagram(1, WireMessage(SyncBlock(NodeAddr[2], Height(2)))),
                   net)
    /\ net = EmptyBag =>
          /\ Height(2) = Height(1)
          /\ Tip(2) = Tip(1)

\* C12 (undecodable datagram): a datagram that is no JSON of a Message
\* does not stop the node: the node that has just received one is still
\* running, ready to receive and dispatch the next message.
C12_UndecodableDiscarded ==
    last.res.tag = "Undecodable" => status[last.node] = "running"

\* The integer sum of the amounts credited to `address` by txs[i..].
RECURSIVE CreditSum(_, _, _)
CreditSum(txs, i, address) ==
    IF i > Len(txs) THEN 0
    ELSE (IF txs[i].data.to = address THEN txs[i].data.amount ELSE 0)
         + CreditSum(txs, i + 1, address)

NeverFrom(txs, address) == \A i \in DOMAIN txs : txs[i].from # address

\* C13 (credit-only balance): for an address that no transaction of the
\* chain has as from, balance_of is the integer sum of the amounts of the
\* chain's transactions to it, over the whole u64 range of amounts: the
\* accumulation neither wraps nor aborts.
C13_CreditOnlyBalance ==
    \A n \in Node : \A a \in Accounts :
        LET txs == ChainTransactions(blocks[n], 1)
        IN  NeverFrom(txs, a) =>
                /\ ~balance_of_overflows(blocks[n], a)
                /\ balance_of(blocks[n], a) = CreditSum(txs, 1, a)

\* Every block of the chain above the genesis carries its index as number.
NumberIsIndex ==
    \A n \in Node : \A i \in 2..Height(n) :
        DataGet(blocks[n].data, blocks[n].hashes[i]).data.number = i - 1

\* A chain that holds its genesis holds a block after every step.
GenesisStays ==
    \A n \in Node : Height(n) >= 1 => Len(blocks'[n].hashes) >= 1

\* C14 (height indexing): once the genesis is seated the chain never
\* becomes empty again, and the block stored under hashes[i], i > 0, has
\* data.number = i.
C14_HeightIndexing == []NumberIsIndex /\ [][GenesisStays]_vars

\* A node has just proposed a block on top of a chain, at the index that
\* is its number.
C14_Witness ==
    /\ last.res.tag = "Proposed"
    /\ Height(last.node) >= 2
    /\ DataGet(blocks[last.node].data, Tip(last.node)).data.number
          = Height(last.node) - 1

\* The blocks of node n's own that a step adds to its store.  A block of
\* a peer that names n as proposer is dropped by process_block, so these
\* are the blocks propose_block creates.
Proposals(n) ==
    {b \in DataValues(blocks'[n].data) \ DataValues(blocks[n].data) :
        b.proposer = NodeAddr[n]}

\* C15 (no empty proposal): every block propose_block creates holds at
\* least one transaction, and it is created only while the node handles a
\* Transaction message, whose transaction verifies and is in the block.
C15_NoEmptyProposal ==
    [][\A n \in Node : \A b \in Proposals(n) :
          /\ Len(b.data.transactions) >= 1
          /\ last'.node = n
          /\ last'.kind = "Transaction"
          /\ Transaction_verify(last'.subject[1]) = "Some"
          /\ last'.subject[1] \in Range(b.data.transactions)]_vars

\* The tip is a block the node has just proposed for the transaction it
\* received.
C15_Witness ==
    /\ last.kind = "Transaction"
    /\ last.res.tag = "Proposed"
    /\ Height(last.node) >= 2
    /\ DataGet(blocks[last.node].data, Tip(last.node)).proposer
          = NodeAddr[last.node]
    /\ DataGet(blocks[last.node].data, Tip(last.node)).data.transactions
          = last.subject

\* C16 (transactions of the chain are valid): every transaction in a block
\* of a node's chain, proposed locally or accepted from a peer, has
\* hash = data.hash() and from = the signer recovered from its signature.
C16_ChainTransactionsValid ==
    \A n \in Node :
        LET txs == ChainTransactions(blocks[n], 1)
        IN  \A i \in DOMAIN txs : Transaction_verify(txs[i]) = "Some"

Addresses(oth) == {x.address : x \in oth}

\* What a Hello may carry: the infos peers announce, and the other node's
\* address under another socket.
HelloInfos == PeerInfos \cup {[address |-> NodeAddr[2], socket |-> 9]}

\* The directory of every node keeps the addresses it holds.
DirectoryGrows ==
    \A n \in Node : Addresses(others[n]) \subseteq Addresses(others'[n])

\* Handling Hello(p) puts p in the directory as the one entry of p.address,
\* touches nothing else, sends nothing but Hello(p), and sends nothing at
\* all when p.address was in the directory or is the node's own.
HelloRule ==
    \A n \in Node : \A p \in HelloInfos : \A e \in process_hello(n, p) :
        /\ e.others = {x \in others[n] : x.address # p.address} \cup {p}
        /\ e.blocks = blocks[n]
        /\ e.pending = pending_transactions[n]
        /\ e.status = "running"
        /\ \A i \in DOMAIN e.sent : e.sent[i].wire = WireMessage(Hello(p))
        /\ (p.address \in Addresses(others[n]) \/ p.address = NodeAddr[n])
              => e.sent = <<>>

\* C17 (Hello novelty): Hello(p) is inserted under p.address and forwarded
\* only if the address was not in the directory and is not the node's own;
\* as the directory never loses an address, a node forwards Hello for an
\* address at most once.
C17_HelloNovelty == []HelloRule /\ [][DirectoryGrows]_vars

\* A node that has a peer has just handled a Hello that was no news.
C17_Witness ==
    /\ last.kind = "Hello"
    /\ last.res.tag = "Known"
    /\ \E x \in others[last.node] : x.address # NodeAddr[last.node]

\* C18 (SyncBlock service): SyncBlock(requester, start) from a requester
\* of the directory is answered, at the requester's socket and nowhere
\* else, with the blocks of the chain at heights start .. height - 1 in
\* order (nothing when start >= height); from any other requester with
\* nothing; the chain, the pool and the directory stay as they are.
C18_SyncBlockService ==
    \A n \in Node : \A requester \in Proposers :
    \A start \in 0..(Height(n) + 1) :
    \A e \in process_sync_block(n, requester, start) :
        /\ e.blocks = blocks[n]
        /\ e.others = others[n]
        /\ e.pending = pending_transactions[n]
        /\ e.status = "running"
        /\ IF requester \in Addresses(others[n])
           THEN /\ Len(e.sent) = (IF Height(n) > start
                                  THEN Height(n) - start ELSE 0)
                /\ \A k \in DOMAIN e.sent :
                      /\ \E x \in others[n] :
                            x.address = requester /\ e.sent[k].to = x.socket
                      /\ e.sent[k].wire.form = "Block"
                      /\ e.sent[k].wire.body \in DataValues(blocks[n].data)
                      /\ e.sent[k].wire.body.hash = blocks[n].hashes[start + k]
                      /\ e.sent[k].wire.body.data.number = start + k - 1
           ELSE e.sent = <<>>

\* A node with a chain of two blocks has just served a SyncBlock of a peer
\* of its directory.
C18_Witness ==
    /\ last.kind = "SyncBlock"
    /\ last.res.tag = "Served"
    /\ Height(last.node) >= 2
    /\ others[last.node] # {}

\* The blocks a peer may send node n, with those that name n as proposer
\* over a signature that does not decode.
BlocksToNode(n) ==
    PeerBlocks(n) \cup InvalidBlocks
    \cup {[b EXCEPT !.signature.recovery_id = 4] :
            b \in {c \in PeerBlocks(n) : IsOwnBlock(n, c)}}

\* C19 (self-echo and invalid blocks): a block whose proposer is the
\* node's own address, or on which verify() fails, whatever its number and
\* prev_hash, leaves the chain, the pool and the directory as they are and
\* makes the node send nothing.
C19_OwnAndInvalidBlocksDropped ==
    \A n \in Node : \A b \in BlocksToNode(n) :
        (b.proposer = NodeAddr[n] \/ Block_verify(b) = "None") =>
            \A e \in process_block(n, b) :
                /\ e.blocks = blocks[n]
                /\ e.others = others[n]
                /\ e.pending = pending_transactions[n]
                /\ e.sent = <<>>
                /\ Block_verify(b) # "Panic" => e.status = "running"

\* A node with a peer has just dropped a block of its own that append
\* would have added.
C19_Witness ==
    /\ last.kind = "Block"
    /\ last.res.tag = "Own"
    /\ others[last.node] # {}
    /\ append(blocks[last.node], last.subject[1]).result = AddedR

\* process_transaction takes tx as far as propose_block.
Accepted(n, tx) ==
    /\ Transaction_verify(tx) = "Some"
    /\ ~balance_of_overflows(blocks[n], tx.from)
    /\ ~(balance_of(blocks[n], tx.from) < tx.data.amount)
    /\ \A t \in pending_transactions[n] : t.hash # tx.hash

\* C20 (local proposals extend the tip): when propose_block runs on a
\* chain of height H >= 1, the new block names hashes[H-1] as prev_hash and
\* H as number, the chain becomes H + 1 long with its first H hashes as
\* they were, the pool is empty afterwards, and Block(new) is sent to every
\* peer of the directory.
C20_ProposalExtendsTip ==
    \A n \in Node : \A tx \in PeerTxs :
        (Height(n) >= 1 /\ Accepted(n, tx)) =>
            \A e \in process_transaction(n, tx) :
                LET H == Height(n)
                    new == DataGet(e.blocks.data, e.blocks.hashes[H + 1])
                IN  /\ Len(e.blocks.hashes) = H + 1
                    /\ SubSeq(e.blocks.hashes, 1, H) = blocks[n].hashes
                    /\ DataHas(e.blocks.data, e.blocks.hashes[H + 1])
                    /\ new.data.prev_hash = blocks[n].hashes[H]
                    /\ new.data.number = H
                    /\ new.proposer = NodeAddr[n]
                    /\ e.pending = {}
                    /\ \A o \in others[n] : \E i \in DOMAIN e.sent :
                          e.sent[i] = Datagram(o.socket, WireMessage(BlockMsg(new)))

\* A node with a peer has just proposed a block on a chain and its pool is
\* empty.
C20_Witness ==
    /\ last.res.tag = "Proposed"
    /\ others[last.node] # {}
    /\ pending_transactions[last.node] = {}
    /\ Height(last.node) >= 2
    /\ status[last.node] = "running"

\* The pool of every node whose loop is between two dispatches.
PoolEmpty ==
    \A n \in Node : status[n] = "running" => pending_transactions[n] = {}

\* A block the step's dispatch proposes holds the transaction the dispatch
\* received and no other.
ProposalHoldsArrival ==
    \A n \in Node : \A b \in Proposals(n) :
        /\ last'.node = n
        /\ last'.kind = "Transaction"
        /\ b.data.transactions = last'.subject
        /\ Len(b.data.transactions) = 1

\* C21 (pool empty between dispatches): whenever a node is between two
\* calls of process_message its pending pool is empty, so every block a
\* node proposes contains exactly one transaction, the one whose arrival
\* triggered the proposal.
C21_PoolEmptyBetweenDispatches ==
    []PoolEmpty /\ [][ProposalHoldsArrival]_vars

\* A node that had proposed a block before has just proposed another one,
\* for a different transaction, and is back in its loop: its two latest
\* blocks are its own, each with one transaction.
C21_Witness ==
    /\ last.kind = "Transaction"
    /\ last.res.tag = "Proposed"
    /\ status[last.node] = "running"
    /\ Height(last.node) >= 3
    /\ LET bs   == blocks[last.node]
           tip  == DataGet(bs.data, bs.hashes[Height(last.node)])
           prev == DataGet(bs.data, bs.hashes[Height(last.node) - 1])
       IN  /\ tip.proposer = NodeAddr[last.node]
           /\ prev.proposer = NodeAddr[last.node]
           /\ tip.data.transactions = last.subject
           /\ Len(prev.data.transactions) = 1
           /\ prev.data.transactions # tip.data.transactions

\* Every hash of the chain is a key of data, and the block stored under a
\* key has that key as its hash.
StoreConsistent(bs) ==
    /\ \A i \in 1..Len(bs.hashes) : DataHas(bs.data, bs.hashes[i])
    /\ \A e \in bs.data : e.block.hash = e.key

\* data_by_number finds one block for every number below the height, the
\* one whose hash the chain holds there.
EveryNumberFound(bs) ==
    \A i \in 0..(Len(bs.hashes) - 1) :
        \E b \in DataValues(bs.data) :
            /\ data_by_number(bs, i) = {b}
            /\ b.hash = bs.hashes[i + 1]

\* C22 (store consistency): in every reachable chain store every hash in
\* hashes is a key of data and the block under it has block.hash equal to
\* the key, so data_by_number(i) returns a block for every i below
\* hashes.len() and balance_of looks up no missing hash; the same holds of
\* the store append leaves for any block a peer may send, fork-choice
\* truncation included, before the entries out of the chain are set aside.
C22_StoreConsistency ==
    \A n \in Node :
        /\ StoreConsistent(blocks[n])
        /\ EveryNumberFound(blocks[n])
        /\ \A b \in PeerBlocks(n) :
              LET after == append(blocks[n], b).blocks
              IN  StoreConsistent(after) /\ EveryNumberFound(after)

\* Fork choice has just truncated a node's chain and put the candidate on
\* top: the candidate is the block found at the new tip.
C22_Witness ==
    /\ last.kind = "Block"
    /\ last.res.tag = "NeedSync"
    /\ Height(last.node) >= 2
    /\ last.subject[1].hash = Tip(last.node)
    /\ data_by_number(blocks[last.node], Height(last.node) - 1)
          = {last.subject[1]}
    /\ \E b \in PeerBlocks(last.node) :
          /\ append(blocks[last.node], b).result.tag = "NeedSync"
          /\ Cardinality(append(blocks[last.node], b).blocks.data)
                > Len(append(blocks[last.node], b).blocks.hashes)

====
